---- MODULE Spec2Model ----
(***************************************************************************)
(* A model of modules/todoReminderManager.js: the TodoReminderManager      *)
(* singleton that shows TODO_REMINDER messages as popups, keeps the popups *)
(* it shows in the activeReminders map and closes them on user actions.    *)
(*                                                                         *)
(* JavaScript runs every handler and every callback to completion, so each *)
(* handler, each requestAnimationFrame callback and each setTimeout        *)
(* callback is one atomic action.                                          *)
(***************************************************************************)
EXTENDS Integers, Sequences, FiniteSets, TLC

\* Number of popups handleTodoReminder may create in one run.
MaxReminders == 2
\* Number of milliseconds the clock may advance in one run.
MaxTime == 1

(***************************************************************************)
(* JavaScript values.  A todoId is a tagged value whose v field is what    *)
(* String(value) yields; a text is a sequence of tokens (<<>> is both ''   *)
(* and undefined: the code only ever tests texts for truthiness); a        *)
(* priority or reminderType is a string, "" when the field is absent; a    *)
(* timestamp is a number of milliseconds, 0 when the field is absent.      *)
(***************************************************************************)
Undefined == [t |-> "undefined", v |-> "undefined"]
Str(s) == [t |-> "string", v |-> s]
Num(n) == [t |-> "number", v |-> ToString(n)]

\* JavaScript truthiness of a tagged value (the left operand of ||).
Truthy(x) ==
    ~ \/ x.t = "undefined"
      \/ (x.t = "string" /\ x.v = "")
      \/ (x.t = "number" /\ x.v = "0")

\* Date.now() when the clock shows tick t.
Epoch == 500000000
DateNow(t) == Num(Epoch + t)

\* a || b on texts, on strings and on numbers.
OrText(a, b) == IF a # <<>> THEN a ELSE b
OrStr(a, b) == IF a # "" THEN a ELSE b
OrNum(a, b) == IF a # 0 THEN a ELSE b

(***************************************************************************)
(* Inbound payloads.  Every payload record has the same fields; an item of *)
(* data.items has the fields the renderers read.                           *)
(***************************************************************************)
NoSummary == [total |-> 0, completed |-> 0, pending |-> 0, overdue |-> 0]
NoItems == [present |-> FALSE, list |-> <<>>]
Items(list) == [present |-> TRUE, list |-> list]
Item(title, content, message) ==
    [title |-> title, content |-> content, message |-> message,
     priority |-> "", scheduledTime |-> 0]

BasePayload ==
    [nullish |-> FALSE, type |-> "TODO_REMINDER", reminderType |-> "normal",
     priority |-> "", todoId |-> Undefined,
     title |-> <<>>, content |-> <<>>, message |-> <<>>, description |-> <<>>,
     scheduledTime |-> 0, timestamp |-> 0, tags |-> <<>>, agentName |-> <<>>,
     items |-> NoItems, summary |-> NoSummary]

\* handleTodoReminder(null)
NullData == [BasePayload EXCEPT !.nullish = TRUE, !.type = ""]
\* a message of another type
OtherType == [BasePayload EXCEPT !.type = "CHAT_MESSAGE", !.content = <<"hi">>]
\* a reminderType the switch does not know
UnknownKind ==
    [BasePayload EXCEPT !.reminderType = "weekly", !.priority = "low",
                        !.todoId = Str("7"), !.content = <<"plan">>]
\* a plain reminder with a string todoId
NormalStr ==
    [BasePayload EXCEPT !.todoId = Str("7"), !.title = <<"Pay">>,
                        !.content = <<"invoice">>]
\* a high-priority reminder with a numeric todoId, no content but a message
NormalNum ==
    [BasePayload EXCEPT !.priority = "high", !.todoId = Num(7),
                        !.message = <<"a", "<", "b">>,
                        !.scheduledTime = Epoch - 120000,
                        !.tags = << <<"home">> >>, !.agentName = <<"Nova">>]
\* a reminder without todoId whose only texts are title and description
NormalNoId ==
    [BasePayload EXCEPT !.title = <<"Call">>, !.description = <<"mum">>]
\* one overdue todo, sent with priority medium
OverdueOne ==
    [BasePayload EXCEPT !.reminderType = "overdue", !.priority = "medium",
                        !.todoId = Str("7"), !.content = <<"invoice">>]
\* a batch of two overdue todos
OverdueBatch ==
    [BasePayload EXCEPT !.reminderType = "overdue",
                        !.items = Items(<< Item(<<"Pay">>, <<"invoice">>, <<>>),
                                           Item(<<>>, <<>>, <<"mum">>) >>)]
\* a daily summary, sent with priority high
DailySummary ==
    [BasePayload EXCEPT !.reminderType = "daily_summary", !.priority = "high",
                        !.todoId = Str("8"),
                        !.items = Items(<< Item(<<"Pay">>, <<>>, <<>>) >>),
                        !.summary = [total |-> 3, completed |-> 1,
                                     pending |-> 0, overdue |-> 1]]

Payloads ==
    {NullData, OtherType, UnknownKind, NormalStr, NormalNum, NormalNoId,
     OverdueOne, OverdueBatch, DailySummary}

\* [data] in showOverdueAlert: the payload itself read as an item.
ItemOf(data) ==
    [title |-> data.title, content |-> data.content, message |-> data.message,
     priority |-> data.priority, scheduledTime |-> data.scheduledTime]

(***************************************************************************)
(* Rendering.  The body of a popup is the sequence of the fragments the    *)
(* render functions write, each with its CSS class and its text.  The      *)
(* Chinese literals of the source are written in English.                  *)
(***************************************************************************)
Fragment(cls, text) == [cls |-> cls, text |-> text]

\* div.textContent = text; div.innerHTML: &, < and > become entities.
EscapeToken(c) ==
    CASE c = "&" -> "&amp;"
      [] c = "<" -> "&lt;"
      [] c = ">" -> "&gt;"
      [] OTHER -> c

escapeHtml(text) == [i \in 1..Len(text) |-> EscapeToken(text[i])]

getPriorityIcon(priority) ==
    CASE priority = "high" -> "red"
      [] priority = "medium" -> "yellow"
      [] priority = "low" -> "green"
      [] OTHER -> "blue"

\* n.toString().padStart(2, '0')
Pad2(n) == IF n < 10 THEN <<"0", ToString(n)>> ELSE <<ToString(n)>>

\* Date getters; the local time zone is taken to be UTC.
getHours(ts) == (ts \div 3600000) % 24
getMinutes(ts) == (ts \div 60000) % 60
DayOfEra(ts) == ((ts \div 86400000) + 719468) % 146097
YearOfEra(ts) ==
    (DayOfEra(ts) - DayOfEra(ts) \div 1460 + DayOfEra(ts) \div 36524
        - DayOfEra(ts) \div 146096) \div 365
DayOfYear(ts) ==
    DayOfEra(ts) - (365 * YearOfEra(ts) + YearOfEra(ts) \div 4
                        - YearOfEra(ts) \div 100)
MonthFromMarch(ts) == (5 * DayOfYear(ts) + 2) \div 153
getDate(ts) == DayOfYear(ts) - (153 * MonthFromMarch(ts) + 2) \div 5 + 1
\* getMonth() + 1
MonthNumber(ts) ==
    IF MonthFromMarch(ts) < 10 THEN MonthFromMarch(ts) + 3
    ELSE MonthFromMarch(ts) - 9

HourMinute(ts) == Pad2(getHours(ts)) \o <<":">> \o Pad2(getMinutes(ts))

\* formatTime(timestamp) when new Date() is nowMs.
formatTime(timestamp, nowMs) ==
    LET diff == timestamp - nowMs
        absDiff == nowMs - timestamp
    IN  IF diff < 0
        THEN CASE absDiff < 60000 -> <<"just now">>
               [] absDiff >= 60000 /\ absDiff < 3600000 ->
                    <<ToString(absDiff \div 60000), " minutes ago">>
               [] absDiff >= 3600000 /\ absDiff < 86400000 ->
                    <<ToString(absDiff \div 3600000), " hours ago">>
               [] OTHER -> <<ToString(absDiff \div 86400000), " days ago">>
        ELSE CASE diff < 60000 -> <<"right away">>
               [] diff >= 60000 /\ diff < 3600000 ->
                    <<ToString(diff \div 60000), " minutes from now">>
               [] diff >= 3600000 /\ diff < 86400000 ->
                    <<"today ">> \o HourMinute(timestamp)
               [] diff >= 86400000 /\ diff < 172800000 ->
                    <<"tomorrow ">> \o HourMinute(timestamp)
               [] OTHER ->
                    <<ToString(MonthNumber(timestamp)), "/",
                      ToString(getDate(timestamp)), " ">>
                        \o HourMinute(timestamp)

RECURSIVE Flatten(_)
Flatten(seqs) ==
    IF seqs = <<>> THEN <<>> ELSE Head(seqs) \o Flatten(Tail(seqs))

\* items.slice(0, n)
Slice(items, n) ==
    SubSeq(items, 1, IF Len(items) < n THEN Len(items) ELSE n)

renderNormalContent(content, time, tags, nowMs) ==
    (IF content # <<>>
        THEN <<Fragment("todo-content", escapeHtml(content))>> ELSE <<>>)
    \o (IF time # 0
        THEN <<Fragment("todo-time", formatTime(time, nowMs))>> ELSE <<>>)
    \o (IF Len(tags) > 0
        THEN <<Fragment("todo-tags",
                 Flatten([i \in 1..Len(tags) |-> escapeHtml(tags[i])]))>>
        ELSE <<>>)

renderOverdueItem(item, nowMs) ==
    <<Fragment("overdue-item-title",
        escapeHtml(OrText(item.title, OrText(item.content, item.message))))>>
    \o (IF item.scheduledTime # 0
        THEN <<Fragment("overdue-time",
                 <<"due ">> \o formatTime(item.scheduledTime, nowMs))>>
        ELSE <<>>)
    \o (IF item.content # <<>> /\ item.title # item.content
        THEN <<Fragment("overdue-item-content", escapeHtml(item.content))>>
        ELSE <<>>)

renderOverdueList(items, nowMs) ==
    Flatten([i \in 1..Len(Slice(items, 3)) |->
                renderOverdueItem(items[i], nowMs)])
    \o (IF Len(items) > 3
        THEN <<Fragment("overdue-item-more",
                 <<"and ", ToString(Len(items) - 3), " more overdue...">>)>>
        ELSE <<>>)

renderSummaryItem(item) ==
    Fragment("summary-item",
        <<"priority-" \o OrStr(item.priority, "normal"),
          getPriorityIcon(item.priority)>>
        \o escapeHtml(OrText(item.content, OrText(item.message, item.title))))

renderDailySummary(summary, items) ==
    <<Fragment("stat-total", <<ToString(summary.total)>>),
      Fragment("stat-completed", <<ToString(summary.completed)>>),
      Fragment("stat-pending", <<ToString(summary.pending)>>)>>
    \o (IF summary.overdue > 0
        THEN <<Fragment("stat-overdue", <<ToString(summary.overdue)>>)>>
        ELSE <<>>)
    \o [i \in 1..Len(Slice(items, 5)) |-> renderSummaryItem(items[i])]
    \o (IF Len(items) > 5
        THEN <<Fragment("summary-item-more",
                 <<"and ", ToString(Len(items) - 5), " more...">>)>>
        ELSE <<>>)

(***************************************************************************)
(* createReminderElement(config), with Date.now() read at tick t.  The     *)
(* element starts without the classes 'show' and 'shake'.  Its last four   *)
(* fields are the callbacks waiting for it: frame is the                   *)
(* requestAnimationFrame callback of displayReminder, framePriority the    *)
(* data.priority that callback captured, shakeTimer its 500 ms timer and   *)
(* removeTimer the 300 ms timer of closeReminder.                          *)
(***************************************************************************)
NoConfigSummary == [present |-> FALSE, stats |-> NoSummary]

createReminderElement(config, t) ==
    [priority |-> config.priority,
     type |-> config.type,
     dataTodoId |-> (IF Truthy(config.todoId) THEN config.todoId
                     ELSE DateNow(t)).v,
     icon |-> getPriorityIcon(config.priority),
     title |-> escapeHtml(config.title),
     body |-> IF config.type = "daily_summary" /\ config.summary.present
              THEN renderDailySummary(config.summary.stats, config.items.list)
              ELSE IF config.type = "overdue" /\ config.items.present
                      /\ Len(config.items.list) > 1
              THEN renderOverdueList(config.items.list, Epoch + t)
              ELSE renderNormalContent(config.content, config.time,
                                       config.tags, Epoch + t),
     agentBadge |-> escapeHtml(config.agentName),
     buttonArg |-> config.todoId.v,
     show |-> FALSE, shake |-> FALSE,
     frame |-> FALSE, framePriority |-> "",
     shakeTimer |-> FALSE, removeTimer |-> FALSE]


(***************************************************************************)
(* The state.  container is the element 'todoReminderContainer' (found or  *)
(* not, with the popups that are its children, in document order);         *)
(* audioContext is whether init() got an AudioContext; activeReminders is  *)
(* the Map, as its entries in insertion order; elements are the popups     *)
(* created so far, a popup's handle being its index; now is the clock;     *)
(* effects are the calls the last step made, in order, when that step was  *)
(* a handler (a callback's effects are all on the popup it belongs to).    *)
(***************************************************************************)
VARIABLES container, audioContext, activeReminders, elements, now, effects

vars == <<container, audioContext, activeReminders, elements, now, effects>>

\* The state as one record, which the methods below take and return.
State ==
    [container |-> container, audioContext |-> audioContext,
     activeReminders |-> activeReminders, elements |-> elements,
     now |-> now, effects |-> <<>>]

Commit(st) ==
    /\ container' = st.container
    /\ audioContext' = st.audioContext
    /\ activeReminders' = st.activeReminders
    /\ elements' = st.elements
    /\ now' = st.now
    /\ effects' = st.effects

Effect(op, arg) == [op |-> op, arg |-> arg]
Emit(st, op, arg) == [st EXCEPT !.effects = Append(@, Effect(op, arg))]
\* An exception left the method: the rest of the handler does not run.
Threw(st) ==
    st.effects # <<>> /\ st.effects[Len(st.effects)].op = "throw"

\* How a Map key is written in effects: its type and its value.
KeyText(key) == key.t \o ":" \o key.v

(***************************************************************************)
(* Map: get, set and delete compare keys by type and value, so the string  *)
(* '7' and the number 7 are two keys.                                      *)
(***************************************************************************)
MapIndex(m, key) ==
    IF \E i \in 1..Len(m) : m[i].key = key
    THEN CHOOSE i \in 1..Len(m) : m[i].key = key
    ELSE 0

MapHas(m, key) == MapIndex(m, key) # 0

MapSet(m, key, element, data) ==
    IF MapHas(m, key)
    THEN [m EXCEPT ![MapIndex(m, key)] =
            [key |-> key, element |-> element, data |-> data]]
    ELSE Append(m, [key |-> key, element |-> element, data |-> data])

MapDelete(m, key) ==
    IF MapHas(m, key)
    THEN SubSeq(m, 1, MapIndex(m, key) - 1)
            \o SubSeq(m, MapIndex(m, key) + 1, Len(m))
    ELSE m

MapKeys(m) == {m[i].key : i \in 1..Len(m)}

\* parentNode.removeChild(h)
RemoveChild(children, h) ==
    LET keep == {i \in 1..Len(children) : children[i] # h}
        F[i \in 0..Len(children)] ==
            IF i = 0 THEN <<>>
            ELSE IF i \in keep THEN Append(F[i - 1], children[i])
            ELSE F[i - 1]
    IN  F[Len(children)]

Children == {container.children[i] : i \in 1..Len(container.children)}

Init ==
    /\ container \in {[found |-> f, children |-> <<>>] : f \in BOOLEAN}
    /\ audioContext \in (IF container.found THEN BOOLEAN ELSE {FALSE})
    /\ activeReminders = <<>>
    /\ elements = <<>>
    /\ now = 0
    /\ effects = <<>>

(***************************************************************************)
(* playSound(priority)                                                     *)
(***************************************************************************)
playSound(st, priority) ==
    LET called == Emit(st, "playSound", priority)
    IN  IF ~st.audioContext THEN called
        ELSE CASE priority = "high" ->
                    Emit(Emit(called, "tone", "800"), "setTimeout tone", "900")
               [] priority = "medium" -> Emit(called, "tone", "600")
               [] OTHER -> Emit(called, "tone", "400")

(***************************************************************************)
(* displayReminder(reminderEl, data), with Date.now() read at tick t.      *)
(***************************************************************************)
displayReminder(st, reminderEl, data, t) ==
    IF ~st.container.found
    THEN Emit(st, "throw", "TypeError")
    ELSE
    LET h == Len(st.elements) + 1
        todoId == IF Truthy(data.todoId) THEN data.todoId ELSE DateNow(t)
        shown == [st EXCEPT
            !.elements = Append(@, [reminderEl EXCEPT
                                      !.frame = TRUE,
                                      !.framePriority = data.priority]),
            !.container.children = Append(@, h),
            !.now = t,
            !.effects = @ \o <<Effect("appendChild", ToString(h)),
                               Effect("requestAnimationFrame", ToString(h))>>]
    IN  Emit([shown EXCEPT
                !.activeReminders = MapSet(@, todoId, h, data)],
             "activeReminders.set", KeyText(todoId))

showNormalReminder(st, data, t) ==
    displayReminder(st,
        createReminderElement(
            [type |-> "normal",
             priority |-> OrStr(data.priority, "normal"),
             title |-> OrText(data.title, <<"Todo reminder">>),
             content |-> OrText(data.content, data.message),
             time |-> OrNum(data.scheduledTime, data.timestamp),
             tags |-> data.tags,
             summary |-> NoConfigSummary,
             items |-> NoItems,
             agentName |-> data.agentName,
             todoId |-> data.todoId], st.now),
        data, t)

showOverdueAlert(st, data, t) ==
    LET overdueItems ==
            IF data.items.present THEN data.items.list ELSE <<ItemOf(data)>>
    IN  displayReminder(st,
            createReminderElement(
                [type |-> "overdue",
                 priority |-> "high",
                 title |-> <<"Overdue todo reminder">>,
                 content |->
                    IF Len(overdueItems) > 1
                    THEN <<"You have ", ToString(Len(overdueItems)),
                           " overdue todos">>
                    ELSE IF Len(overdueItems) = 0 THEN <<>>
                    ELSE OrText(overdueItems[1].content,
                                overdueItems[1].message),
                 time |-> 0,
                 tags |-> <<>>,
                 summary |-> NoConfigSummary,
                 items |-> Items(overdueItems),
                 agentName |-> data.agentName,
                 todoId |-> data.todoId], st.now),
            data, t)

showDailySummary(st, data, t) ==
    LET summaryData == data.summary
        items == data.items.list
    IN  displayReminder(st,
            createReminderElement(
                [type |-> "daily_summary",
                 priority |-> "normal",
                 title |-> <<"Today's todo summary">>,
                 content |-> <<>>,
                 time |-> 0,
                 tags |-> <<>>,
                 summary |->
                    [present |-> TRUE,
                     stats |->
                        [total |-> OrNum(summaryData.total, Len(items)),
                         completed |-> OrNum(summaryData.completed, 0),
                         pending |-> OrNum(summaryData.pending, Len(items)),
                         overdue |-> OrNum(summaryData.overdue, 0)]],
                 items |-> Items(items),
                 agentName |-> data.agentName,
                 todoId |-> data.todoId], st.now),
            data, t)

KnownTypes == {"daily_summary", "overdue", "normal"}

\* The switch of handleTodoReminder.
Dispatch(st, data, t) ==
    CASE data.reminderType = "daily_summary" -> showDailySummary(st, data, t)
      [] data.reminderType = "overdue" -> showOverdueAlert(st, data, t)
      [] data.reminderType = "normal" -> showNormalReminder(st, data, t)
      [] OTHER -> Emit(st, "console.warn", data.reminderType)

\* handleTodoReminder with the sound played before the switch.
HandleBodySoundFirst(st, data, t) ==
    IF data.nullish \/ data.type # "TODO_REMINDER" THEN st
    ELSE Dispatch(playSound(st, OrStr(data.priority, "normal")), data, t)

\* The body of handleTodoReminder(data); displayReminder reads the clock at t.
HandleBody(st, data, t) ==
    IF data.nullish \/ data.type # "TODO_REMINDER" THEN st
    ELSE LET dispatched == Dispatch(st, data, t)
         IN  IF Threw(dispatched) THEN dispatched
             ELSE playSound(dispatched, OrStr(data.priority, "normal"))

\* Whether handleTodoReminder(data) creates a popup.
Displays(data) ==
    ~data.nullish /\ data.type = "TODO_REMINDER"
        /\ data.reminderType \in KnownTypes

(***************************************************************************)
(* handleTodoReminder(data).  dt is the time that passes between the       *)
(* Date.now() of createReminderElement and the one of displayReminder,     *)
(* which are both read only when data carries no todoId.                   *)
(***************************************************************************)
handleTodoReminder(data, dt) ==
    /\ now + dt <= MaxTime
    /\ dt > 0 => (Displays(data) /\ ~Truthy(data.todoId) /\ container.found)
    /\ (Displays(data) /\ container.found) => Len(elements) < MaxReminders
    /\ Commit(HandleBody(State, data, now + dt))


(***************************************************************************)
(* closeReminder(element).  The argument is a string (a todoId, from the   *)
(* action buttons), an HTMLElement inside popup el (the close button, or   *)
(* the popup itself from clearAll), or an event whose target is inside     *)
(* popup el.                                                               *)
(***************************************************************************)
StringArg(s) == [kind |-> "string", id |-> s, el |-> 0]
ElementArg(h) == [kind |-> "HTMLElement", id |-> "", el |-> h]
EventArg(h) == [kind |-> "event", id |-> "", el |-> h]

\* reminderEl.classList.remove('show'); setTimeout(remove, 300)
Hide(st, h) ==
    Emit([st EXCEPT !.elements[h].show = FALSE,
                    !.elements[h].removeTimer = TRUE],
         "close", ToString(h))

closeReminder(st, element) ==
    IF element.kind = "string"
    THEN LET key == Str(element.id)
             i == MapIndex(st.activeReminders, key)
         IN  IF i # 0
             THEN Hide(Emit([st EXCEPT
                               !.activeReminders = MapDelete(@, key)],
                            "activeReminders.delete", KeyText(key)),
                       st.activeReminders[i].element)
             ELSE st
    ELSE LET todoId == st.elements[element.el].dataTodoId
         IN  Hide(IF todoId # ""
                  THEN Emit([st EXCEPT
                               !.activeReminders = MapDelete(@, Str(todoId))],
                            "activeReminders.delete", KeyText(Str(todoId)))
                  ELSE st,
                  element.el)

(***************************************************************************)
(* showToast(message, type); toastFound is whether the document has the    *)
(* element 'floating-toast-notifications-container' at that moment.        *)
(***************************************************************************)
showToast(st, type, toastFound) ==
    LET called == Emit(st, "showToast", type)
    IN  IF toastFound THEN Emit(called, "toast", type) ELSE called

\* dismissReminder(todoId): the 'remind later' button.
DismissBody(st, todoId) ==
    Emit(closeReminder(st, StringArg(todoId)), "console.log dismiss", todoId)

\* viewTodo(todoId).  api says whether window.electronAPI.openTodoDetail
\* exists (line 373).
ViewBody(st, todoId, api) ==
    LET logged == Emit(closeReminder(st, StringArg(todoId)),
                       "console.log view", todoId)
    IN  IF api THEN Emit(logged, "openTodoDetail", todoId) ELSE logged

\* completeTodo(todoId)
CompleteBody(st, todoId, toastFound) ==
    showToast(
        Emit(closeReminder(st, StringArg(todoId)), "console.log complete", todoId),
        "success", toastFound)

(***************************************************************************)
(* clearAll(): Map.prototype.forEach visits the entries in insertion order *)
(* and skips an entry deleted before its turn; keys are the keys still to  *)
(* visit.                                                                  *)
(***************************************************************************)
RECURSIVE ForEachClose(_, _)
ForEachClose(st, keys) ==
    IF keys = <<>> THEN st
    ELSE LET i == MapIndex(st.activeReminders, Head(keys))
         IN  IF i = 0 THEN ForEachClose(st, Tail(keys))
             ELSE ForEachClose(
                    closeReminder(st, ElementArg(st.activeReminders[i].element)),
                    Tail(keys))

ClearBody(st) ==
    Emit([ForEachClose(st, [i \in 1..Len(st.activeReminders) |->
                                st.activeReminders[i].key])
            EXCEPT !.activeReminders = <<>>],
         "activeReminders.clear", "")

(***************************************************************************)
(* The user's clicks on popup h.  The buttons call the global              *)
(* todoReminderManager with the todoId the template wrote into their       *)
(* onclick attribute, the close button with itself.  A popup can be        *)
(* clicked while it is in the document and has been painted: the browser   *)
(* runs the requestAnimationFrame callbacks before it paints a frame, so   *)
(* the popup's callback has run by then.  A popup that is fading out       *)
(* stays in the document, and can be clicked, until its timer removes it.  *)
(***************************************************************************)
Clickable(h) == h \in Children /\ ~elements[h].frame

viewTodo(h, api) ==
    /\ Clickable(h)
    /\ Commit(ViewBody(State, elements[h].buttonArg, api))

dismissReminder(h) ==
    /\ Clickable(h)
    /\ Commit(DismissBody(State, elements[h].buttonArg))

\* confirmation is the answer the backend would give to a completion
\* request; completeTodo sends none (line 385) and never reads it.
completeTodo(h, toastFound, confirmation) ==
    /\ Clickable(h)
    /\ confirmation \in {"ok", "failed"}
    /\ Commit(CompleteBody(State, elements[h].buttonArg, toastFound))

closeButton(h) ==
    /\ Clickable(h)
    /\ Commit(closeReminder(State, ElementArg(h)))

clearAll ==
    /\ container.found
    /\ Commit(ClearBody(State))

(***************************************************************************)
(* Callbacks.                                                              *)
(***************************************************************************)
\* The requestAnimationFrame callback of displayReminder for popup h.
AnimationFrame(h) ==
    /\ elements[h].frame
    /\ Commit(
        LET shown == [State EXCEPT !.elements[h].frame = FALSE,
                                   !.elements[h].show = TRUE]
        IN  IF elements[h].framePriority = "high"
            THEN [shown EXCEPT !.elements[h].shake = TRUE,
                               !.elements[h].shakeTimer = TRUE]
            ELSE shown)

\* setTimeout(() => reminderEl.classList.remove('shake'), 500)
ShakeTimer(h) ==
    /\ elements[h].shakeTimer
    /\ Commit([State EXCEPT !.elements[h].shakeTimer = FALSE,
                            !.elements[h].shake = FALSE])

\* The 300 ms timer of closeReminder for popup h.
RemoveTimer(h) ==
    /\ elements[h].removeTimer
    /\ Commit(
        LET fired == [State EXCEPT !.elements[h].removeTimer = FALSE]
        IN  IF h \in Children
            THEN [fired EXCEPT !.container.children = RemoveChild(@, h)]
            ELSE fired)

\* A millisecond passes.
Tick ==
    /\ now < MaxTime
    /\ Commit([State EXCEPT !.now = now + 1])

Handles == 1..Len(elements)

Next ==
    \/ \E data \in Payloads, dt \in 0..1 : handleTodoReminder(data, dt)
    \/ \E h \in Handles, api \in BOOLEAN : viewTodo(h, api)
    \/ \E h \in Handles : dismissReminder(h)
    \/ \E h \in Handles, toastFound \in BOOLEAN,
          confirmation \in {"ok", "failed"} :
            completeTodo(h, toastFound, confirmation)
    \/ \E h \in Handles : closeButton(h)
    \/ clearAll
    \/ \E h \in Handles : AnimationFrame(h)
    \/ \E h \in Handles : ShakeTimer(h)
    \/ \E h \in Handles : RemoveTimer(h)
    \/ Tick

Spec == Init /\ [][Next]_vars


(***************************************************************************)
(* Specifications.  The event loop runs every callback that is due, so the *)
(* callbacks are weakly fair; nothing obliges the backend to send a        *)
(* message or the user to click.                                           *)
(***************************************************************************)
Callbacks ==
    \/ \E h \in Handles : AnimationFrame(h)
    \/ \E h \in Handles : ShakeTimer(h)
    \/ \E h \in Handles : RemoveTimer(h)

FairSpec == Init /\ [][Next]_vars /\ WF_vars(Callbacks)

\* The manager as the backend alone drives it: messages arrive and the
\* animation callbacks they schedule run; nobody clicks.
NextDispatch ==
    \/ \E data \in Payloads, dt \in 0..1 : handleTodoReminder(data, dt)
    \/ \E h \in Handles : AnimationFrame(h)
    \/ \E h \in Handles : ShakeTimer(h)
    \/ Tick

DispatchSpec == Init /\ [][NextDispatch]_vars

(***************************************************************************)
(* Reading the state and the effects.                                      *)
(***************************************************************************)
Count(e, op) == Cardinality({i \in 1..Len(e) : e[i].op = op})
\* The place of the first call of op in e, 0 when there is none.
Pos(e, op) ==
    IF \E i \in 1..Len(e) : e[i].op = op
    THEN CHOOSE i \in 1..Len(e) :
            e[i].op = op /\ \A j \in 1..(i - 1) : e[j].op # op
    ELSE 0
Has(e, op, arg) == \E i \in 1..Len(e) : e[i] = Effect(op, arg)

\* The entries of the Map whose popup is h.
EntriesOf(m, h) == {i \in 1..Len(m) : m[i].element = h}
\* Popup h is in the document and has not been closed.
Pending(h) == h \in Children /\ ~elements[h].removeTimer
\* A payload that handleTodoReminder does not turn away at its first line.
Inbound(data) == ~data.nullish /\ data.type = "TODO_REMINDER"


(***************************************************************************)
(* C1.  Every inbound reminder handed to handleTodoReminder, whatever its  *)
(* reminderType, makes exactly one popup appear, one call of playSound and *)
(* one insertion into activeReminders.  (Stated for a document that has    *)
(* the container: without it no popup can appear at all.)                  *)
(***************************************************************************)
C1_OnePopupOneSoundOneInsertion ==
    [][\A data \in Payloads, dt \in 0..1 :
          (handleTodoReminder(data, dt) /\ Inbound(data) /\ container.found) =>
              /\ Count(effects', "appendChild") = 1
              /\ Len(container'.children) = Len(container.children) + 1
              /\ Count(effects', "playSound") = 1
              /\ Count(effects', "activeReminders.set") = 1]_vars

(***************************************************************************)
(* C8.  When handleTodoReminder displays a reminder, the popup is added to *)
(* the container and playSound is called before the reminder is put into   *)
(* activeReminders.                                                        *)
(***************************************************************************)
C8_RenderAndSoundBeforeInsertion ==
    Count(effects, "activeReminders.set") > 0 =>
        /\ Pos(effects, "appendChild") # 0
        /\ Pos(effects, "appendChild") < Pos(effects, "activeReminders.set")
        /\ Pos(effects, "playSound") # 0
        /\ Pos(effects, "playSound") < Pos(effects, "activeReminders.set")

\* C8 as amended: the popup is added to the container before the reminder
\* is put into activeReminders, and playSound is called once, after it.
C8_RenderBeforeInsertionBeforeSound ==
    Count(effects, "activeReminders.set") > 0 =>
        /\ Count(effects, "activeReminders.set") = 1
        /\ Count(effects, "appendChild") = 1
        /\ Count(effects, "playSound") = 1
        /\ Pos(effects, "appendChild") < Pos(effects, "activeReminders.set")
        /\ Pos(effects, "activeReminders.set") < Pos(effects, "playSound")

\* A reminder has just been displayed: popup, insertion and sound.
C8_Witness ==
    /\ Count(effects, "appendChild") = 1
    /\ Count(effects, "activeReminders.set") = 1
    /\ Count(effects, "playSound") = 1
    /\ Len(activeReminders) > 0
    /\ Len(container.children) > 0


(***************************************************************************)
(* C2.  The effective priority of an 'overdue' reminder is high and that   *)
(* of a 'daily_summary' is normal, whatever the inbound priority; the      *)
(* popup, the shake effect, the tone of playSound and the record kept in   *)
(* activeReminders all use the effective priority.                         *)
(***************************************************************************)
EffectivePriority(data) ==
    CASE data.reminderType = "overdue" -> "high"
      [] data.reminderType = "daily_summary" -> "normal"
      [] OTHER -> OrStr(data.priority, "normal")

C2_EffectivePriorityEverywhere ==
    [][\A data \in Payloads, dt \in 0..1 :
          (/\ handleTodoReminder(data, dt)
           /\ Inbound(data) /\ container.found
           /\ data.reminderType \in {"overdue", "daily_summary"}) =>
              LET h == Len(elements')
                  eff == EffectivePriority(data)
              IN  /\ elements'[h].priority = eff
                  /\ (elements'[h].framePriority = "high") <=> (eff = "high")
                  /\ Has(effects', "playSound", eff)
                  /\ \A i \in EntriesOf(activeReminders', h) :
                        activeReminders'[i].data.priority = eff]_vars

(***************************************************************************)
(* C3.  A user action (completeTodo, dismissReminder, viewTodo) on an id   *)
(* that is not pending in activeReminders (already completed or dismissed, *)
(* or otherwise not tracked) is rejected: activeReminders and the popups   *)
(* stay as they are and no success is reported.                            *)
(***************************************************************************)
Tracked(id) == MapHas(activeReminders, Str(id))

C3_UntrackedActionRejected ==
    [][\A h \in Handles :
          (/\ \/ \E api \in BOOLEAN : viewTodo(h, api)
              \/ dismissReminder(h)
              \/ \E toastFound \in BOOLEAN, confirmation \in {"ok", "failed"} :
                    completeTodo(h, toastFound, confirmation)
           /\ ~Tracked(elements[h].buttonArg)) =>
              /\ UNCHANGED <<activeReminders, elements, container>>
              /\ ~Has(effects', "showToast", "success")]_vars

(***************************************************************************)
(* C4.  Two rapid user actions on the same reminder id cannot both         *)
(* succeed: once an action on a pending reminder has been accepted (it     *)
(* took the reminder out of activeReminders), the action that follows it   *)
(* on the same id is dropped: it neither closes a reminder nor reports a   *)
(* success.                                                                *)
(***************************************************************************)
ActedOn(e, id) ==
    \/ Has(e, "console.log complete", id)
    \/ Has(e, "console.log dismiss", id)
    \/ Has(e, "console.log view", id)

Accepted(e, id) ==
    ActedOn(e, id) /\ Has(e, "activeReminders.delete", KeyText(Str(id)))

Succeeded(e, id) ==
    /\ ActedOn(e, id)
    /\ \/ Count(e, "close") > 0
       \/ Has(e, "showToast", "success")

ButtonArgs == {elements[h].buttonArg : h \in Handles}

C4_AtMostOneSucceeds ==
    [][\A id \in ButtonArgs :
          ~(Accepted(effects, id) /\ Succeeded(effects', id))]_vars


(***************************************************************************)
(* C5.  A reminder the user snoozes ('remind later', dismissReminder) on a *)
(* pending reminder leaves activeReminders and is delivered again: it      *)
(* eventually is a pending reminder in activeReminders with the same id.   *)
(***************************************************************************)
Snoozed(id) ==
    /\ Has(effects, "console.log dismiss", id)
    /\ Has(effects, "activeReminders.delete", KeyText(Str(id)))
    /\ ~Tracked(id)

StringIds == {p.todoId.v : p \in {q \in Payloads : q.todoId.t = "string"}}

C5_SnoozedIsRedelivered ==
    \A id \in StringIds : Snoozed(id) ~> Tracked(id)

(***************************************************************************)
(* C6.  Completion is optimistic with rollback: when completeTodo(X) runs  *)
(* on a pending reminder X and the backend confirmation fails, X is        *)
(* pending in activeReminders again, no success is reported and a failure  *)
(* notice is shown.                                                        *)
(***************************************************************************)
C6_FailedCompletionRollsBack ==
    [][\A h \in Handles, toastFound \in BOOLEAN :
          (/\ completeTodo(h, toastFound, "failed")
           /\ Tracked(elements[h].buttonArg)) =>
              /\ Tracked(elements[h].buttonArg)'
              /\ ~Has(effects', "showToast", "success")
              /\ \E i \in 1..Len(effects') :
                    /\ effects'[i].op = "showToast"
                    /\ effects'[i].arg # "success"]_vars

(***************************************************************************)
(* C7.  For every inbound reminder in which content, description, free     *)
(* text (message) or title is not empty, the popup has a body that is not  *)
(* empty and shows the first non-empty value of that chain, for every      *)
(* reminder kind.                                                          *)
(***************************************************************************)
FallbackChain(data) ==
    OrText(data.content,
        OrText(data.description, OrText(data.message, data.title)))

C7_BodyShowsFallbackContent ==
    [][\A data \in Payloads, dt \in 0..1 :
          (/\ handleTodoReminder(data, dt)
           /\ Displays(data) /\ container.found
           /\ FallbackChain(data) # <<>>) =>
              LET body == elements'[Len(elements')].body
              IN  /\ body # <<>>
                  /\ \E i \in 1..Len(body) :
                        body[i].text = escapeHtml(FallbackChain(data))]_vars

(***************************************************************************)
(* C9.  A reminder leaves activeReminders exactly when a user action is    *)
(* applied to it: viewTodo, dismissReminder or completeTodo with the id    *)
(* the popup's buttons pass, or the popup's close button, removes the      *)
(* reminder's entry and closes its popup, whether the todoId is a string,  *)
(* a number or absent; and no entry leaves without such an action or       *)
(* clearAll.                                                               *)
(***************************************************************************)
UserAction(h) ==
    \/ \E api \in BOOLEAN : viewTodo(h, api)
    \/ dismissReminder(h)
    \/ \E toastFound \in BOOLEAN, confirmation \in {"ok", "failed"} :
          completeTodo(h, toastFound, confirmation)
    \/ closeButton(h)

C9_RemovedExactlyOnUserAction ==
    [][/\ \A h \in Handles :
            (UserAction(h) /\ Pending(h) /\ EntriesOf(activeReminders, h) # {})
                => /\ EntriesOf(activeReminders', h) = {}
                   /\ elements'[h].removeTimer
       /\ (\E h \in Handles :
              /\ EntriesOf(activeReminders, h) # {}
              /\ EntriesOf(activeReminders', h) = {})
            => \/ \E h \in Handles : UserAction(h)
               \/ clearAll]_vars

(***************************************************************************)
(* C10.  The reminder id is unique among the active reminders: no two      *)
(* popups that are displayed as pending carry the same id.                 *)
(***************************************************************************)
C10_PendingIdsUnique ==
    \A h1, h2 \in Handles :
        (h1 # h2 /\ Pending(h1) /\ Pending(h2))
            => elements[h1].dataTodoId # elements[h2].dataTodoId


(***************************************************************************)
(* C11.  Tracking invariant: the popups displayed in the container and not *)
(* yet closed are exactly the elements the entries of activeReminders      *)
(* refer to.  No popup is displayed without an entry pointing at it, and   *)
(* no entry refers to a popup that has been closed.                        *)
(***************************************************************************)
C11_DisplayedIffTracked ==
    \A h \in Handles :
        Pending(h) <=> EntriesOf(activeReminders, h) # {}


(***************************************************************************)
(* C12.  clearAll clears everything: after clearAll, activeReminders is    *)
(* empty, and every popup that was displayed in the container when         *)
(* clearAll ran is eventually removed from it, once the 300 ms removal     *)
(* timers have fired.                                                      *)
(***************************************************************************)
Cleared == Has(effects, "activeReminders.clear", "")

C12_ClearAllRemovesEveryPopup ==
    /\ [](Cleared => activeReminders = <<>>)
    /\ \A h \in 1..MaxReminders :
          (Cleared /\ h \in Children) ~> (h \notin Children)


====
